---------------------------- MODULE Spec2Model ----------------------------
(***************************************************************************)
(* Model of src/fundos_capt.py: the ETL script that consolidates the CVM   *)
(* daily fund reports, aggregates the net flow (Captacao_Liquida) to one   *)
(* line per (CNPJ_FUNDO_CLASSE, Data_Comptc), computes the trailing        *)
(* 30/90/180 day sums per fund, joins the fund register and keeps the      *)
(* rows of the most recent date.                                           *)
(*                                                                         *)
(* The script is one top-to-bottom sequence of statements over the global  *)
(* variables df, df_agg, n_duplicados, df_cad, data_maxima, df_filtrado    *)
(* and df_final; pc is the position in the script.  A DataFrame is a       *)
(* sequence of rows, a row is a record of its columns.  Dates are day      *)
(* numbers counted from 2024-01-01; numeric cells are [ok, v] records,     *)
(* NaN being the cell with ok = FALSE; a CNPJ is a sequence of characters. *)
(***************************************************************************)
EXTENDS Integers, Sequences, FiniteSets, TLC

VARIABLES pc, df, df_agg, n_duplicados, df_cad, n_unicos, n_registros,
          data_maxima, df_filtrado, df_final

vars == <<pc, df, df_agg, n_duplicados, df_cad, n_unicos, n_registros,
          data_maxima, df_filtrado, df_final>>

(***************************************************************************)
(* Bounds of the model.                                                    *)
(***************************************************************************)
\* Largest number of rows of the consolidated daily report.
MaxRows == 3

\* Largest number of rows of the fund register file.
MaxCad == 2

(***************************************************************************)
(* Cells.                                                                  *)
(***************************************************************************)
\* pandas' missing timestamp.  Never equal to a day number of the calendar.
NaT == -1

\* pandas' missing float.
NaN == [ok |-> FALSE, v |-> 0]

Num(n) == [ok |-> TRUE, v |-> n]

\* Missing text cell (a left join without a match).
SemNome == "NaN"

\* The DT_COMPTC strings of the input files that are dates, with their day
\* number (days elapsed since 2024-01-01).
Calendario ==
    ("2024-01-01" :> 0) @@ ("2024-03-31" :> 90) @@ ("2024-05-30" :> 150) @@
    ("2024-06-19" :> 170) @@ ("2024-06-29" :> 180)

\* A DT_COMPTC cell that is no date.
DataInvalida == "0000-00-00"

Digitos == {"0", "1", "2", "3", "4", "5", "6", "7", "8", "9"}

IsDigit(c) == c \in Digitos

\* Numeric rank of a character, for the lexicographic order of strings.
Rank(c) ==
    CASE c = "0" -> 0 [] c = "1" -> 1 [] c = "2" -> 2 [] c = "3" -> 3
      [] c = "4" -> 4 [] c = "5" -> 5 [] c = "6" -> 6 [] c = "7" -> 7
      [] c = "8" -> 8 [] c = "9" -> 9 [] OTHER -> 10

(***************************************************************************)
(* Inputs: the rows of the downloaded files.                               *)
(***************************************************************************)
\* CNPJ_FUNDO_CLASSE as written in the daily reports: two funds, the first
\* one written with and without punctuation.
CnpjInforme == {<<"1", ".">>, <<"2">>}

CnpjComFalhas == {<<"1", ".">>, <<"1">>, <<"2">>}

\* DT_COMPTC as written in the daily reports.
DatasInforme == DOMAIN Calendario

DatasComFalhas == {"2024-05-30", "2024-06-29", DataInvalida}

\* (CAPTC_DIA, RESG_DIA) as read by read_csv: numbers, or NaN for an empty cell.
FluxosInforme == {<<Num(2), Num(0)>>, <<Num(0), Num(1)>>}

FluxosComFalhas == {<<Num(2), Num(0)>>, <<Num(0), Num(1)>>, <<NaN, Num(0)>>}

\* (CNPJ_FUNDO, DENOM_SOCIAL) as written in the register cad_fi.csv.
LinhasCadastro == {<<<<"1">>, "A">>, <<<<"1">>, "B">>, <<<<"1", ".">>, "A">>}

RECURSIVE SeqsUpTo(_, _)
\* All sequences over S of length at most n.
SeqsUpTo(S, n) ==
    IF n = 0 THEN {<<>>}
    ELSE LET T == SeqsUpTo(S, n - 1)
         IN  T \cup {Append(t, x) : t \in {u \in T : Len(u) = n - 1}, x \in S}

(***************************************************************************)
(* Cell arithmetic and conversions.                                        *)
(***************************************************************************)
\* Element-wise float subtraction: NaN if either operand is NaN.
Sub(a, b) == IF a.ok /\ b.ok THEN Num(a.v - b.v) ELSE NaN

\* pd.to_datetime(errors="coerce"): the day of a date string, NaT otherwise.
ToDatetime(s) == IF s \in DOMAIN Calendario THEN Calendario[s] ELSE NaT

\* pd.to_numeric(errors="coerce") on a float column: numbers stay, the rest is NaN.
ToNumeric(x) == IF x.ok THEN Num(x.v) ELSE NaN

\* .astype(str).str.replace(r"\D", "", regex=True): keep the digits only.
SoDigitos(s) == SelectSeq(s, IsDigit)

RECURSIVE StrLess(_, _)
\* Lexicographic order of two strings (the order sort_values / groupby use).
StrLess(a, b) ==
    IF b = <<>> THEN FALSE
    ELSE IF a = <<>> THEN TRUE
    ELSE IF Rank(Head(a)) # Rank(Head(b)) THEN Rank(Head(a)) < Rank(Head(b))
    ELSE StrLess(Tail(a), Tail(b))

\* Order of the (CNPJ_FUNDO_CLASSE, Data_Comptc) keys.
KeyLeq(k1, k2) ==
    \/ StrLess(k1[1], k2[1])
    \/ k1[1] = k2[1] /\ k1[2] <= k2[2]

RECURSIVE SortKeys(_)
\* The keys of S in ascending order.
SortKeys(S) ==
    IF S = {} THEN <<>>
    ELSE LET m == CHOOSE k \in S : \A o \in S : KeyLeq(k, o)
         IN  <<m>> \o SortKeys(S \ {m})

RECURSIVE SortStrs(_)
\* The strings of S in ascending order.
SortStrs(S) ==
    IF S = {} THEN <<>>
    ELSE LET m == CHOOSE k \in S : \A o \in S : k = o \/ StrLess(k, o)
         IN  <<m>> \o SortStrs(S \ {m})

Key(r) == <<r.CNPJ_FUNDO_CLASSE, r.Data_Comptc>>

(***************************************************************************)
(* ETAPA 1: download and consolidation.                                    *)
(***************************************************************************)
\* One row of a monthly file that passed the TP_FUNDO_CLASSE = "FI" filter,
\* with Captacao_Liquida = CAPTC_DIA - RESG_DIA.
LinhaInforme(cnpj, dt, fluxo) ==
    [CNPJ_FUNDO_CLASSE |-> cnpj,
     DT_COMPTC         |-> dt,
     Captacao_Liquida  |-> Sub(fluxo[1], fluxo[2])]

Init ==
    /\ pc = "carga"
    /\ df = <<>>
    /\ df_agg = <<>>
    /\ n_duplicados = 0
    /\ df_cad = <<>>
    /\ n_unicos = 0
    /\ n_registros = 0
    /\ data_maxima = NaT
    /\ df_filtrado = <<>>
    /\ df_final = <<>>

\* One more row read from the monthly files and concatenated into df; the
\* files are well formed.
Carga ==
    /\ pc = "carga"
    /\ Len(df) < MaxRows
    /\ \E cnpj \in CnpjInforme, dt \in DatasInforme, fluxo \in FluxosInforme :
           df' = Append(df, LinhaInforme(cnpj, dt, fluxo))
    /\ UNCHANGED <<pc, df_agg, n_duplicados, df_cad, n_unicos, n_registros,
                   data_maxima, df_filtrado, df_final>>

\* The same, the files holding cells that are no date or no number.
CargaComFalhas ==
    /\ pc = "carga"
    /\ Len(df) < MaxRows
    /\ \E cnpj \in CnpjComFalhas, dt \in DatasComFalhas, fluxo \in FluxosComFalhas :
           df' = Append(df, LinhaInforme(cnpj, dt, fluxo))
    /\ UNCHANGED <<pc, df_agg, n_duplicados, df_cad, n_unicos, n_registros,
                   data_maxima, df_filtrado, df_final>>

(***************************************************************************)
(* ETAPA 2: type conversion and normalisation.                             *)
(***************************************************************************)
ConverterLinha(r) ==
    [CNPJ_FUNDO_CLASSE |-> SoDigitos(r.CNPJ_FUNDO_CLASSE),
     Data_Comptc       |-> ToDatetime(r.DT_COMPTC),
     Captacao_Liquida  |-> ToNumeric(r.Captacao_Liquida)]

Conversao ==
    /\ pc = "carga"
    /\ pc' = "conversao"
    /\ df' = [i \in 1..Len(df) |-> ConverterLinha(df[i])]
    /\ UNCHANGED <<df_agg, n_duplicados, df_cad, n_unicos, n_registros,
                   data_maxima, df_filtrado, df_final>>

(***************************************************************************)
(* ETAPA 3: aggregation, one line per fund and date.                       *)
(***************************************************************************)
\* Variant of GroupKeys: groupby(dropna=False), a missing date is a key too.
GroupKeys_comNaT(d) == {Key(d[i]) : i \in 1..Len(d)}

\* The group keys of a groupby on (CNPJ_FUNDO_CLASSE, Data_Comptc): rows
\* whose key holds a missing value are dropped (dropna=True).
GroupKeys(d) == {Key(d[i]) : i \in {j \in 1..Len(d) : d[j].Data_Comptc # NaT}}

RECURSIVE SumSkipNa_first(_, _, _)
\* Variant of SumSkipNa: the aggregation "first", the number of the first row
\* of the group instead of the sum of the group.
SumSkipNa_first(d, k, n) ==
    IF n = 0 THEN 0
    ELSE IF \E j \in 1..(n - 1) : Key(d[j]) = k /\ d[j].Captacao_Liquida.ok
         THEN SumSkipNa_first(d, k, n - 1)
         ELSE IF Key(d[n]) = k /\ d[n].Captacao_Liquida.ok
              THEN d[n].Captacao_Liquida.v ELSE 0

RECURSIVE SumSkipNa_porFundo(_, _, _)
\* Variant of SumSkipNa: the sum over the rows of the fund, whatever the date.
SumSkipNa_porFundo(d, k, n) ==
    IF n = 0 THEN 0
    ELSE SumSkipNa_porFundo(d, k, n - 1)
         + (IF d[n].CNPJ_FUNDO_CLASSE = k[1] /\ d[n].Data_Comptc # NaT
               /\ d[n].Captacao_Liquida.ok
            THEN d[n].Captacao_Liquida.v ELSE 0)

RECURSIVE SumSkipNa(_, _, _)
\* Series.sum() of Captacao_Liquida over rows 1..n of d with key k: NaN is
\* skipped, and the sum of no value is 0.
SumSkipNa(d, k, n) ==
    IF n = 0 THEN 0
    ELSE SumSkipNa(d, k, n - 1)
         + (IF Key(d[n]) = k /\ d[n].Captacao_Liquida.ok
            THEN d[n].Captacao_Liquida.v ELSE 0)

\* Number of rows of d with key k.
GroupSize(d, k) == Cardinality({i \in 1..Len(d) : Key(d[i]) = k})

\* Variant of GroupbySum: a transform that keeps one output row per dated
\* input row instead of one per group.
GroupbySum_semAgrupar(d) ==
    LET v == SelectSeq(d, LAMBDA r : r.Data_Comptc # NaT)
    IN  [i \in 1..Len(v) |->
            [CNPJ_FUNDO_CLASSE |-> v[i].CNPJ_FUNDO_CLASSE,
             Data_Comptc       |-> v[i].Data_Comptc,
             Captacao_Liquida  |->
                 Num(IF v[i].Captacao_Liquida.ok THEN v[i].Captacao_Liquida.v ELSE 0)]]

\* d.groupby([CNPJ_FUNDO_CLASSE, Data_Comptc], as_index=False)
\*  .agg({Captacao_Liquida: sum})
GroupbySum(d) ==
    LET ks == SortKeys(GroupKeys(d))
    IN  [i \in 1..Len(ks) |->
            [CNPJ_FUNDO_CLASSE |-> ks[i][1],
             Data_Comptc       |-> ks[i][2],
             Captacao_Liquida  |-> Num(SumSkipNa(d, ks[i], Len(d)))]]

Agregacao ==
    /\ pc = "conversao"
    /\ pc' = "agregacao"
    /\ df_agg' = GroupbySum(df)
    /\ UNCHANGED <<df, n_duplicados, df_cad, n_unicos, n_registros,
                   data_maxima, df_filtrado, df_final>>

\* df = df_agg
Atribuicao ==
    /\ pc = "agregacao"
    /\ pc' = "agregado"
    /\ df' = df_agg
    /\ UNCHANGED <<df_agg, n_duplicados, df_cad, n_unicos, n_registros,
                   data_maxima, df_filtrado, df_final>>

(***************************************************************************)
(* ETAPA 4: validation, detection of duplicated keys.                      *)
(***************************************************************************)
\* (duplicados > 1).sum()
NDuplicados(d) == Cardinality({k \in GroupKeys(d) : GroupSize(d, k) > 1})

Validacao ==
    /\ pc = "agregado"
    /\ pc' = "validado"
    /\ n_duplicados' = NDuplicados(df)
    /\ df' = IF NDuplicados(df) > 0 THEN GroupbySum(df) ELSE df
    /\ UNCHANGED <<df_agg, df_cad, n_unicos, n_registros, data_maxima, df_filtrado, df_final>>

(***************************************************************************)
(* ETAPA 5: trailing sums over 30, 90 and 180 days.                        *)
(***************************************************************************)
\* rolling("30D"), rolling("90D"), rolling("180D"): the window widths in days.
Janela30 == 30

Janela90 == 90

Janela180 == 180

\* min_periods=1
MinPeriods == 1

\* s is sorted by key; x goes after every row whose key is not greater.
InsertRow(s, x) ==
    LET n == Cardinality({i \in 1..Len(s) : KeyLeq(Key(s[i]), Key(x))})
    IN  SubSeq(s, 1, n) \o <<x>> \o SubSeq(s, n + 1, Len(s))

RECURSIVE SortValues(_)
\* d.sort_values([CNPJ_FUNDO_CLASSE, Data_Comptc]).reset_index(drop=True)
SortValues(d) ==
    IF d = <<>> THEN <<>>
    ELSE InsertRow(SortValues(SubSeq(d, 1, Len(d) - 1)), d[Len(d)])

\* Variant of Grupo: a rolling without the groupby, every row in every group.
Grupo_todos(d, c) == d

\* The rows of one fund, in the order of d: one group of groupby(CNPJ_FUNDO_CLASSE).
Grupo(d, c) == SelectSeq(d, LAMBDA r : r.CNPJ_FUNDO_CLASSE = c)

\* Variant of InicioJanela: closed="both", the window [Data_Comptc[i] - w, Data_Comptc[i]].
InicioJanela_fechada(g, w, i, s) ==
    CHOOSE j \in s..i :
        /\ g[j].Data_Comptc >= g[i].Data_Comptc - w
        /\ \A k \in s..(j - 1) : ~(g[k].Data_Comptc >= g[i].Data_Comptc - w)

\* The window of row i of group g is (Data_Comptc[i] - w, Data_Comptc[i]]
\* (closed="right"): its first row, searched from s, the start of the
\* window of row i - 1.
InicioJanela(g, w, i, s) ==
    CHOOSE j \in s..i :
        /\ g[j].Data_Comptc > g[i].Data_Comptc - w
        /\ \A k \in s..(j - 1) : ~(g[k].Data_Comptc > g[i].Data_Comptc - w)

RECURSIVE SomaTrecho(_, _, _)
\* Sum of the numbers in rows a..b of g.
SomaTrecho(g, a, b) ==
    IF a > b THEN 0
    ELSE (IF g[a].Captacao_Liquida.ok THEN g[a].Captacao_Liquida.v ELSE 0)
         + SomaTrecho(g, a + 1, b)

\* Count of the numbers in rows a..b of g.
ObsTrecho(g, a, b) == Cardinality({k \in a..b : g[k].Captacao_Liquida.ok})

RECURSIVE RollFrom(_, _, _, _, _, _)
\* The rolling sums of rows i..Len(g): s, soma and nobs are the start, the
\* sum and the number of observations of the window of row i - 1.  Row i
\* enters the window, the rows s..(start of the new window - 1) leave it.
RollFrom(g, w, i, s, soma, nobs) ==
    IF i > Len(g) THEN <<>>
    ELSE LET s2    == InicioJanela(g, w, i, s)
             soma2 == soma + SomaTrecho(g, i, i) - SomaTrecho(g, s, s2 - 1)
             nobs2 == nobs + ObsTrecho(g, i, i) - ObsTrecho(g, s, s2 - 1)
             out   == IF nobs2 >= MinPeriods THEN Num(soma2) ELSE NaN
         IN  <<out>> \o RollFrom(g, w, i + 1, s2, soma2, nobs2)

\* g["Captacao_Liquida"].rolling(w, min_periods=1).sum() for one group.
RollingSum(g, w) == RollFrom(g, w, 1, 1, 0, 0)

RECURSIVE ConcatGrupos(_, _, _)
\* The rolling sums of the groups cs[n..], one group after the other.
ConcatGrupos(d, w, cs) ==
    IF cs = <<>> THEN <<>>
    ELSE RollingSum(Grupo(d, Head(cs)), w) \o ConcatGrupos(d, w, Tail(cs))

\* d.groupby(CNPJ_FUNDO_CLASSE)[Captacao_Liquida].rolling(w, min_periods=1)
\*  .sum().reset_index(level=0, drop=True): groups in key order.  d is
\* sorted by fund and date, so the result is in the row order of d.
GroupbyRolling(d, w) ==
    ConcatGrupos(d, w, SortStrs({d[i].CNPJ_FUNDO_CLASSE : i \in 1..Len(d)}))

\* Variant of ComJanelas: the 30 and 90 day columns exchanged.
ComJanelas_trocadas(d) ==
    LET c30  == GroupbyRolling(d, Janela90)
        c90  == GroupbyRolling(d, Janela30)
        c180 == GroupbyRolling(d, Janela180)
    IN  [i \in 1..Len(d) |->
            [CNPJ_FUNDO_CLASSE |-> d[i].CNPJ_FUNDO_CLASSE,
             Data_Comptc       |-> d[i].Data_Comptc,
             Captacao_Liquida  |-> d[i].Captacao_Liquida,
             Captacao_30D      |-> c30[i],
             Captacao_90D      |-> c90[i],
             Captacao_180D     |-> c180[i]]]

\* The frame with the three rolling columns.
ComJanelas(d) ==
    LET c30  == GroupbyRolling(d, Janela30)
        c90  == GroupbyRolling(d, Janela90)
        c180 == GroupbyRolling(d, Janela180)
    IN  [i \in 1..Len(d) |->
            [CNPJ_FUNDO_CLASSE |-> d[i].CNPJ_FUNDO_CLASSE,
             Data_Comptc       |-> d[i].Data_Comptc,
             Captacao_Liquida  |-> d[i].Captacao_Liquida,
             Captacao_30D      |-> c30[i],
             Captacao_90D      |-> c90[i],
             Captacao_180D     |-> c180[i]]]

Janelas ==
    /\ pc = "validado"
    /\ pc' = "janelas"
    /\ df' = ComJanelas(SortValues(df))
    /\ UNCHANGED <<df_agg, n_duplicados, df_cad, n_unicos, n_registros,
                   data_maxima, df_filtrado, df_final>>

(***************************************************************************)
(* ETAPA 6: the fund register and the join with the fund names.            *)
(***************************************************************************)
RECURSIVE DropDuplicates(_)
\* drop_duplicates(): the first occurrence of every row.
DropDuplicates(s) ==
    IF s = <<>> THEN <<>>
    ELSE LET front == DropDuplicates(SubSeq(s, 1, Len(s) - 1))
             x     == s[Len(s)]
         IN  IF \E i \in 1..Len(front) : front[i] = x THEN front
             ELSE Append(front, x)

\* df_cad[[CNPJ_FUNDO, DENOM_SOCIAL]].drop_duplicates(), then CNPJ_FUNDO
\* reduced to its digits.
LerCadastro(arquivo) ==
    LET u == DropDuplicates(arquivo)
    IN  [i \in 1..Len(u) |->
            [CNPJ_FUNDO |-> SoDigitos(u[i][1]), DENOM_SOCIAL |-> u[i][2]]]

Cadastro ==
    /\ pc = "janelas"
    /\ pc' = "cadastro"
    /\ \E arquivo \in SeqsUpTo(LinhasCadastro, MaxCad) :
           df_cad' = LerCadastro(arquivo)
    /\ UNCHANGED <<df, df_agg, n_duplicados, n_unicos, n_registros,
                   data_maxima, df_filtrado, df_final>>

\* A row of df with the DENOM_SOCIAL column.
ComNome(r, nome) ==
    [CNPJ_FUNDO_CLASSE |-> r.CNPJ_FUNDO_CLASSE,
     Data_Comptc       |-> r.Data_Comptc,
     Captacao_Liquida  |-> r.Captacao_Liquida,
     Captacao_30D      |-> r.Captacao_30D,
     Captacao_90D      |-> r.Captacao_90D,
     Captacao_180D     |-> r.Captacao_180D,
     DENOM_SOCIAL      |-> nome]

\* The rows a left join yields for row r: one per register row of the same
\* CNPJ, in the order of the register, or one without name if there is none.
LinhasDoMerge(r, cad) ==
    LET m == SelectSeq(cad, LAMBDA c : c.CNPJ_FUNDO = r.CNPJ_FUNDO_CLASSE)
    IN  IF m = <<>> THEN <<ComNome(r, SemNome)>>
        ELSE [j \in 1..Len(m) |-> ComNome(r, m[j].DENOM_SOCIAL)]

RECURSIVE MergeLeft(_, _)
\* d.merge(cad, left_on=CNPJ_FUNDO_CLASSE, right_on=CNPJ_FUNDO, how="left")
\*  .drop(columns=CNPJ_FUNDO)
MergeLeft(d, cad) ==
    IF d = <<>> THEN <<>>
    ELSE LinhasDoMerge(Head(d), cad) \o MergeLeft(Tail(d), cad)

Merge ==
    /\ pc = "cadastro"
    /\ pc' = "merge"
    /\ df' = MergeLeft(df, df_cad)
    /\ UNCHANGED <<df_agg, n_duplicados, df_cad, n_unicos, n_registros,
                   data_maxima, df_filtrado, df_final>>

(***************************************************************************)
(* ETAPA 11: final check of duplication.                                   *)
(***************************************************************************)
Verificacao ==
    /\ pc = "merge"
    /\ pc' = "verificado"
    /\ n_unicos' = Cardinality(GroupKeys(df))
    /\ n_registros' = Len(df)
    /\ UNCHANGED <<df, df_agg, n_duplicados, df_cad, data_maxima, df_filtrado, df_final>>

(***************************************************************************)
(* ETAPA 8: keep the most recent day only.                                 *)
(***************************************************************************)
\* Variant of SeriesMax: the first day of the calendar as the maximum of no date.
SeriesMax_epoca(d) ==
    LET ds == {d[i].Data_Comptc : i \in 1..Len(d)} \ {NaT}
    IN  IF ds = {} THEN 0 ELSE CHOOSE m \in ds : \A o \in ds : o <= m

\* Series.max() of Data_Comptc: NaT is skipped, and the maximum of no date is NaT.
SeriesMax(d) ==
    LET ds == {d[i].Data_Comptc : i \in 1..Len(d)} \ {NaT}
    IN  IF ds = {} THEN NaT ELSE CHOOSE m \in ds : \A o \in ds : o <= m

\* Comparison of two timestamps: NaT equals nothing, itself included.
EqData(a, b) == a # NaT /\ b # NaT /\ a = b

\* Variant of FiltrarData: the latest date of each fund instead of the
\* latest date of the dataset.
FiltrarData_porFundo(d, m) ==
    SelectSeq(d, LAMBDA r :
        \A i \in 1..Len(d) :
            d[i].CNPJ_FUNDO_CLASSE = r.CNPJ_FUNDO_CLASSE
                => d[i].Data_Comptc <= r.Data_Comptc)

\* df[df["Data_Comptc"] == data_maxima]
FiltrarData(d, m) == SelectSeq(d, LAMBDA r : EqData(r.Data_Comptc, m))

Filtro ==
    /\ pc = "verificado"
    /\ pc' = "filtrado"
    /\ data_maxima' = SeriesMax(df)
    /\ df_filtrado' = FiltrarData(df, SeriesMax(df))
    /\ UNCHANGED <<df, df_agg, n_duplicados, df_cad, n_unicos, n_registros, df_final>>

(***************************************************************************)
(* ETAPA 9: final layout.                                                  *)
(***************************************************************************)
\* strftime("%d/%m/%Y") of the days of the calendar.
Strftime(dia) ==
    CASE dia = 0   -> "01/01/2024"
      [] dia = 90  -> "31/03/2024"
      [] dia = 150 -> "30/05/2024"
      [] dia = 170 -> "19/06/2024"
      [] dia = 180 -> "29/06/2024"
      [] OTHER     -> "NaN"

\* Column selection and renaming of one row.
LinhaFinal(r) ==
    [Nome_Fundo              |-> r.DENOM_SOCIAL,
     Data                    |-> Strftime(r.Data_Comptc),
     Captacao_Liquida_Diaria |-> r.Captacao_Liquida,
     Captacao_30D            |-> r.Captacao_30D,
     Captacao_90D            |-> r.Captacao_90D,
     Captacao_180D           |-> r.Captacao_180D]

\* The selected columns, without the rows whose Nome_Fundo is missing.
LayoutFinal(d) ==
    LET comNome == SelectSeq(d, LAMBDA r : r.DENOM_SOCIAL # SemNome)
    IN  [i \in 1..Len(comNome) |-> LinhaFinal(comNome[i])]

Layout ==
    /\ pc = "filtrado"
    /\ pc' = "fim"
    /\ df_final' = LayoutFinal(df_filtrado)
    /\ UNCHANGED <<df, df_agg, n_duplicados, df_cad, n_unicos, n_registros,
                   data_maxima, df_filtrado>>

\* The script after the download loop.
Etapas ==
    \/ Conversao
    \/ Agregacao
    \/ Atribuicao
    \/ Validacao
    \/ Janelas
    \/ Cadastro
    \/ Merge
    \/ Verificacao
    \/ Filtro
    \/ Layout

Next == Carga \/ Etapas

NextComFalhas == CargaComFalhas \/ Etapas

\* The run over well formed files.
Spec == Init /\ [][Next]_vars

\* The run over files with invalid cells.
SpecComFalhas == Init /\ [][NextComFalhas]_vars

(***************************************************************************)
(* Properties.  Their sums are taken over sets of rows, not by the         *)
(* operators of the script.                                                *)
(***************************************************************************)
\* The number of a cell, a missing one counting as 0.
Valor(c) == IF c.ok THEN c.v ELSE 0

RECURSIVE SomaDe(_, _)
\* Sum of Captacao_Liquida over the rows of d whose positions are in S.
SomaDe(d, S) ==
    IF S = {} THEN 0
    ELSE LET i == CHOOSE x \in S : TRUE
         IN  Valor(d[i].Captacao_Liquida) + SomaDe(d, S \ {i})

\* The positions of d with the fund and the date of row r.
MesmaChave(d, r) ==
    {n \in 1..Len(d) : /\ d[n].CNPJ_FUNDO_CLASSE = r.CNPJ_FUNDO_CLASSE
                       /\ d[n].Data_Comptc = r.Data_Comptc}

\* The positions of d with the fund of row i and a date t such that
\* Data_Comptc[i] - w < t <= Data_Comptc[i].
NaJanela(d, i, w) ==
    {j \in 1..Len(d) : /\ d[j].CNPJ_FUNDO_CLASSE = d[i].CNPJ_FUNDO_CLASSE
                       /\ d[i].Data_Comptc - w < d[j].Data_Comptc
                       /\ d[j].Data_Comptc <= d[i].Data_Comptc}

\* d without its row i.
SemLinha(d, i) == SubSeq(d, 1, i - 1) \o SubSeq(d, i + 1, Len(d))

\* d in the opposite order.
Inverso(d) == [i \in 1..Len(d) |-> d[Len(d) + 1 - i]]

\* The rows of d as a set.
Linhas(d) == {d[i] : i \in 1..Len(d)}

\* Every Captacao_Liquida of the fund of row i of d is >= 0.
FundoSemResgateLiquido(d, i) ==
    \A j \in 1..Len(d) :
        d[j].CNPJ_FUNDO_CLASSE = d[i].CNPJ_FUNDO_CLASSE => d[j].Captacao_Liquida.v >= 0

\* C1: the output of the aggregation holds no two rows with the same
\* (CNPJ_FUNDO_CLASSE, Data_Comptc), so the validation counts no duplicated
\* key and does not aggregate again.
C1_ChavesUnicas ==
    /\ pc \notin {"carga", "conversao"} =>
           \A i, j \in 1..Len(df_agg) :
               i # j => \/ df_agg[i].CNPJ_FUNDO_CLASSE # df_agg[j].CNPJ_FUNDO_CLASSE
                        \/ df_agg[i].Data_Comptc # df_agg[j].Data_Comptc
    /\ pc \notin {"carga", "conversao", "agregacao", "agregado"} => n_duplicados = 0
    /\ pc = "validado" => df = df_agg

\* C1 witness: the aggregation has run over an input in which two rows share
\* their fund and date.
C1_Witness ==
    /\ pc = "agregacao"
    /\ \E i, j \in 1..Len(df) :
           /\ i # j
           /\ df[i].Data_Comptc # NaT
           /\ j \in MesmaChave(df, df[i])
    /\ Len(df_agg) >= 2

\* C2: for every fund and date of a dated input row, the aggregated
\* Captacao_Liquida is the sum of the numbers of all input rows with that fund
\* and date, each counted once; a missing number adds 0, and a key with
\* missing numbers only is in the output with 0.
C2_Conservacao ==
    pc = "agregacao" =>
        \A i \in 1..Len(df) :
            df[i].Data_Comptc # NaT =>
                \E j \in 1..Len(df_agg) :
                    /\ df_agg[j].CNPJ_FUNDO_CLASSE = df[i].CNPJ_FUNDO_CLASSE
                    /\ df_agg[j].Data_Comptc = df[i].Data_Comptc
                    /\ df_agg[j].Captacao_Liquida = Num(SomaDe(df, MesmaChave(df, df[i])))

\* C2 witness: one key with two numbers, another key with a missing number only.
C2_Witness ==
    /\ pc = "agregacao"
    /\ \E i, j, k \in 1..Len(df) :
           /\ i # j
           /\ df[i].Data_Comptc # NaT
           /\ j \in MesmaChave(df, df[i])
           /\ df[i].Captacao_Liquida.ok
           /\ df[j].Captacao_Liquida.ok
           /\ df[k].Data_Comptc # NaT
           /\ MesmaChave(df, df[k]) = {k}
           /\ ~df[k].Captacao_Liquida.ok
           /\ \E n \in 1..Len(df_agg) :
                  /\ df_agg[n].Data_Comptc = df[k].Data_Comptc
                  /\ df_agg[n].Captacao_Liquida = Num(0)

\* C3: the 30, 90 and 180 day sums of a row dated d are the sums of
\* Captacao_Liquida over the rows of the same fund dated t with
\* d - W < t <= d, in calendar days.
C3_JanelaCalendario ==
    pc = "janelas" =>
        \A i \in 1..Len(df) :
            /\ df[i].Captacao_30D = Num(SomaDe(df, NaJanela(df, i, 30)))
            /\ df[i].Captacao_90D = Num(SomaDe(df, NaJanela(df, i, 90)))
            /\ df[i].Captacao_180D = Num(SomaDe(df, NaJanela(df, i, 180)))

\* C3 witness: a row with a row of its fund exactly 30 days before it, left
\* out of the 30 day sum, and another one less than 30 days before it, in it.
C3_Witness ==
    /\ pc = "janelas"
    /\ \E i, j, k \in 1..Len(df) :
           /\ df[j].CNPJ_FUNDO_CLASSE = df[i].CNPJ_FUNDO_CLASSE
           /\ df[k].CNPJ_FUNDO_CLASSE = df[i].CNPJ_FUNDO_CLASSE
           /\ df[j].Data_Comptc = df[i].Data_Comptc - 30
           /\ df[k].Data_Comptc > df[i].Data_Comptc - 30
           /\ df[k].Data_Comptc < df[i].Data_Comptc
           /\ df[i].Captacao_30D =
                  Num(df[k].Captacao_Liquida.v + df[i].Captacao_Liquida.v)
           /\ df[i].Captacao_90D # df[i].Captacao_30D
           /\ df[i].Captacao_180D = df[i].Captacao_90D

\* C4: the filter keeps exactly the rows whose date is the maximum date of the
\* whole dataset; a fund whose latest row is older has no row in the result.
C4_DataMaximaGlobal ==
    pc \in {"filtrado", "fim"} =>
        /\ df_filtrado =
               SelectSeq(df, LAMBDA r :
                   \A i \in 1..Len(df) : df[i].Data_Comptc <= r.Data_Comptc)
        /\ df # <<>> =>
               /\ \A i \in 1..Len(df) : df[i].Data_Comptc <= data_maxima
               /\ \E i \in 1..Len(df) : df[i].Data_Comptc = data_maxima

\* C4 witness: a fund all of whose rows are older than the maximum date, and
\* none of them is kept.
C4_Witness ==
    /\ pc = "filtrado"
    /\ df_filtrado # <<>>
    /\ \E i \in 1..Len(df) :
           /\ \A j \in 1..Len(df) :
                  df[j].CNPJ_FUNDO_CLASSE = df[i].CNPJ_FUNDO_CLASSE
                      => df[j].Data_Comptc < data_maxima
           /\ \A n \in 1..Len(df_filtrado) :
                  df_filtrado[n].CNPJ_FUNDO_CLASSE # df[i].CNPJ_FUNDO_CLASSE

\* C5: a row without a valid date yields no key and adds to no aggregated
\* row: the aggregation of the input is the aggregation of the input without
\* that row.
C5_DataInvalidaExcluida ==
    pc = "agregacao" =>
        /\ \A j \in 1..Len(df_agg) : df_agg[j].Data_Comptc # NaT
        /\ \A i \in 1..Len(df) :
               df[i].Data_Comptc = NaT => GroupbySum(SemLinha(df, i)) = df_agg

\* C5 witness: an undated row with a number, of a fund that has a dated row too.
C5_Witness ==
    /\ pc = "agregacao"
    /\ \E i, j \in 1..Len(df) :
           /\ df[i].Data_Comptc = NaT
           /\ df[i].Captacao_Liquida.ok
           /\ df[j].Data_Comptc # NaT
           /\ df[j].CNPJ_FUNDO_CLASSE = df[i].CNPJ_FUNDO_CLASSE
    /\ df_agg # <<>>

\* C6: aggregating the aggregated frame again yields the same rows.
C6_Idempotencia ==
    pc = "agregado" =>
        /\ Linhas(GroupbySum(df)) = Linhas(df)
        /\ Len(GroupbySum(df)) = Len(df)

\* C6 witness: an aggregated frame of several rows, one of them the sum of
\* two input rows.
C6_Witness ==
    /\ pc = "agregado"
    /\ Len(df) >= 2
    /\ \E i \in 1..Len(df) : df[i].Captacao_Liquida.v = 4

\* C7: with no input row the aggregation, the rolling sums and the filter
\* each yield an empty frame, and the maximum date is missing.
C7_EntradaVazia ==
    /\ pc = "agregacao" /\ df = <<>> => df_agg = <<>>
    /\ pc = "janelas" /\ df_agg = <<>> => df = <<>>
    /\ pc \in {"filtrado", "fim"} /\ df = <<>> =>
           /\ data_maxima = NaT
           /\ df_filtrado = <<>>
    /\ pc = "fim" /\ df = <<>> => df_final = <<>>

\* C7 witness: the script has reached its end over empty frames.
C7_Witness ==
    /\ pc = "fim"
    /\ df_agg = <<>>
    /\ df = <<>>
    /\ df_filtrado = <<>>
    /\ df_final = <<>>

\* C8: the rolling sums of a fund are those computed from the rows of that
\* fund alone, and they do not depend on the order in which the rows are
\* presented.
C8_FundosIndependentes ==
    pc = "janelas" =>
        /\ \A c \in {df_agg[i].CNPJ_FUNDO_CLASSE : i \in 1..Len(df_agg)} :
               SelectSeq(df, LAMBDA r : r.CNPJ_FUNDO_CLASSE = c) =
                   ComJanelas(SortValues(
                       SelectSeq(df_agg, LAMBDA r : r.CNPJ_FUNDO_CLASSE = c)))
        /\ df = ComJanelas(SortValues(Inverso(df_agg)))

\* C8 witness: two funds with a row on the same date, one of them with an
\* earlier row inside its 30 day window.
C8_Witness ==
    /\ pc = "janelas"
    /\ \E i, j, k \in 1..Len(df) :
           /\ df[j].CNPJ_FUNDO_CLASSE = df[i].CNPJ_FUNDO_CLASSE
           /\ df[k].CNPJ_FUNDO_CLASSE # df[i].CNPJ_FUNDO_CLASSE
           /\ df[k].Data_Comptc = df[i].Data_Comptc
           /\ df[j].Data_Comptc < df[i].Data_Comptc
           /\ df[j].Data_Comptc > df[i].Data_Comptc - 30
           /\ df[i].Captacao_30D =
                  Num(df[i].Captacao_Liquida.v + df[j].Captacao_Liquida.v)

\* C9: in a fund whose Captacao_Liquida values are all >= 0, every row has
\* Captacao_180D >= Captacao_90D >= Captacao_30D.
C9_JanelasMonotonas ==
    pc = "janelas" =>
        \A i \in 1..Len(df) :
            FundoSemResgateLiquido(df, i) =>
                /\ df[i].Captacao_180D.v >= df[i].Captacao_90D.v
                /\ df[i].Captacao_90D.v >= df[i].Captacao_30D.v

\* C9 witness: a row of such a fund whose three sums differ.
C9_Witness ==
    /\ pc = "janelas"
    /\ \E i \in 1..Len(df) :
           /\ FundoSemResgateLiquido(df, i)
           /\ df[i].Captacao_180D.v > df[i].Captacao_90D.v
           /\ df[i].Captacao_90D.v > df[i].Captacao_30D.v

\* C9, second half: with a negative Captacao_Liquida the order can fail; a
\* reachable state in which the 90 day sum is below the 30 day sum.
C9_OrdemViolada ==
    /\ pc = "janelas"
    /\ \E i \in 1..Len(df) : df[i].Captacao_90D.v < df[i].Captacao_30D.v

\* C10: the join with the register keeps the number of rows, and the rows of
\* the most recent day hold every fund at most once, whatever the register.
C10_UmaLinhaPorFundo ==
    /\ pc \in {"merge", "verificado", "filtrado", "fim"} => Len(df) = Len(df_agg)
    /\ pc \in {"verificado", "filtrado", "fim"} => n_unicos = n_registros
    /\ pc \in {"filtrado", "fim"} =>
           \A i, j \in 1..Len(df_filtrado) :
               i # j => df_filtrado[i].CNPJ_FUNDO_CLASSE # df_filtrado[j].CNPJ_FUNDO_CLASSE

=============================================================================
